---- MODULE Spec2Model ----
(***************************************************************************)
(* Model of the interactive voice message application (src/app.py).        *)
(*                                                                         *)
(* Text is a sequence of atoms.  An atom is an indivisible run of          *)
(* characters of one lexical class of string.Template's pattern:           *)
(*   "$", "{", "}"   the delimiter and the braces,                         *)
(*   word atoms      runs of [_a-zA-Z0-9] that start with [_a-zA-Z],       *)
(*   number atoms    runs of [_a-zA-Z0-9] that start with a digit,         *)
(*   literal atoms   any other run; it starts with a character that is     *)
(*                   none of the above and holds no "$".                   *)
(* Python's string concatenation is \o on these sequences.                 *)
(***************************************************************************)
EXTENDS Integers, Sequences, FiniteSets, TLC

VARIABLES config, menu, callState, req, resp, invoked, attempts, nreq, fin, fout,
          threads, builders

vars == <<config, menu, callState, req, resp, invoked, attempts, nreq, fin, fout,
          threads, builders>>

\* ------------------------------------------------------------------
\* Bounds of the model
\* ------------------------------------------------------------------
MaxRequests == 3
MaxPieces == 3
MaxText == 1
MaxMenu == 2

\* ------------------------------------------------------------------
\* Lexical classes of atoms (string.Template's idpattern, ASCII, ignore case)
\* ------------------------------------------------------------------
WordAtoms ==
    {"a", "b", "from_name", "subject", "main_message", "email",
     "Hello", "Thank", "My", "Please", "Press", "Okay", "Or", "I",
     "to", "for", "From", "Apple", "Apples", "test"}

NumAtoms == {"1", "2", "3", "5", "9", "12"}

IsIdStart(c) == c \in WordAtoms

IsIdChar(c) == c \in WordAtoms \cup NumAtoms

\* The longest prefix of t made of identifier characters ([_a-z0-9]*, greedy).
RECURSIVE IdRun(_)
IdRun(t) ==
    IF t # <<>> /\ IsIdChar(Head(t)) THEN <<Head(t)>> \o IdRun(Tail(t)) ELSE <<>>

Drop(t, n) == SubSeq(t, n + 1, Len(t))

\* ------------------------------------------------------------------
\* Results of operations that may raise
\* ------------------------------------------------------------------
Ok(v) == [err |-> "none", val |-> v]

Raise(e) == [err |-> e, val |-> <<>>]

\* Continue with F on the value of r, unless r raised: the exception goes up.
Bind(r, F(_)) == IF r.err = "none" THEN F(r.val) ELSE r

\* ------------------------------------------------------------------
\* string.Template(template).substitute(**variables)
\* One left-to-right pass; the text put in place of a reference is not
\* scanned again.  "$$" is an escaped "$"; "$name" and "${name}" are
\* references (KeyError when name is no key); any other "$" is invalid
\* (ValueError).  The leftmost failure is the one raised.
\* ------------------------------------------------------------------
Match(group, span, name) == [group |-> group, span |-> span, name |-> name]

\* "${" followed by the identifier run `name`: braced when "}" closes it
BracedOrInvalid(u, name) ==
    IF Len(u) >= Len(name) + 2 /\ u[Len(name) + 2] = "}"
    THEN Match("braced", Len(name) + 3, name)
    ELSE Match("invalid", 1, <<>>)

\* The match of Template.pattern at the head of t, where Head(t) = "$";
\* u is what follows the "$".  The alternatives are tried in the
\* pattern's order: escaped, named, braced, invalid.
MatchAfter(u) ==
    IF u # <<>> /\ Head(u) = "$" THEN Match("escaped", 2, <<>>)
    ELSE IF u # <<>> /\ IsIdStart(Head(u)) THEN Match("named", 1 + Len(IdRun(u)), IdRun(u))
    ELSE IF Len(u) >= 2 /\ Head(u) = "{" /\ IsIdStart(u[2])
         THEN BracedOrInvalid(u, IdRun(Tail(u)))
    ELSE Match("invalid", 1, <<>>)

\* Mutant: a reference to a missing variable is replaced by nothing.
Convert_MissingAsEmpty(mo, variables) ==
    IF mo.group = "escaped" THEN Ok(<<"$">>)
    ELSE IF mo.group = "invalid" THEN Raise("ValueError")
    ELSE IF mo.name \in DOMAIN variables THEN Ok(variables[mo.name])
    ELSE Ok(<<>>)

\* convert(mo): the text put in place of the match
Convert(mo, variables) ==
    IF mo.group = "escaped" THEN Ok(<<"$">>)
    ELSE IF mo.group = "invalid" THEN Raise("ValueError")
    ELSE IF mo.name \in DOMAIN variables THEN Ok(variables[mo.name])
    ELSE Raise("KeyError")

RECURSIVE Substitute(_, _)
SubstituteAt(t, mo, variables) ==
    Bind(Convert(mo, variables),
         LAMBDA c : Bind(Substitute(Drop(t, mo.span), variables),
                         LAMBDA v : Ok(c \o v)))

Substitute(t, variables) ==
    IF t = <<>> THEN Ok(<<>>)
    ELSE IF Head(t) # "$"
         THEN Bind(Substitute(Tail(t), variables), LAMBDA v : Ok(<<Head(t)>> \o v))
    ELSE SubstituteAt(t, MatchAfter(Tail(t)), variables)

render_template(template, cfg) == Substitute(template, cfg.variables)

\* ------------------------------------------------------------------
\* Prompt pieces (TwiMLElement): a str, a TwiML element or a lazy builder
\* ------------------------------------------------------------------
Str(t) == [kind |-> "str", text |-> t, attr |-> "", interpret_as |-> ""]

\* ssml(say_attr_name, text, interpret_as=...): a LazyTwiMLBuilder
ssml(say_attr_name, t, interp) ==
    [kind |-> "lazy", text |-> t, attr |-> say_attr_name, interpret_as |-> interp]

\* an already built TwiML element, named by its tag
TwiMLElem(tag, t) == [kind |-> "twiml", text |-> t, attr |-> tag, interpret_as |-> ""]

IsStr(e) == e.kind = "str"

\* children of a Say element
TextNode(t) == [node |-> "text", text |-> t, tag |-> "", interpret_as |-> ""]

TagNode(tag, t, interp) == [node |-> "tag", text |-> t, tag |-> tag, interpret_as |-> interp]

\* wrap_in_list: a str (or a non-iterable) is wrapped, a list is returned as is
Single(e) == [isList |-> FALSE, items |-> <<e>>]

List(es) == [isList |-> TRUE, items |-> es]

wrap_in_list(obj) == IF obj.isList THEN obj.items ELSE <<obj.items[1]>>

\* Mutant: consecutive strings are not concatenated.
reducer_NoMerge(acc, elem) == Append(acc, elem)

reducer(acc, elem) ==
    IF acc # <<>> /\ IsStr(acc[Len(acc)]) /\ IsStr(elem)
    THEN SubSeq(acc, 1, Len(acc) - 1) \o <<Str(acc[Len(acc)].text \o elem.text)>>
    ELSE Append(acc, elem)

RECURSIVE Reduce(_, _)
Reduce(elems, acc) ==
    IF elems = <<>> THEN acc ELSE Reduce(Tail(elems), reducer(acc, Head(elems)))

concat_consecutive_strings(elems) == Reduce(elems, <<>>)

\* One iteration of the loop of say(): attach elem to the Say's children.
SayAttach(children, elem, cfg) ==
    IF IsStr(elem)
    THEN Bind(render_template(elem.text, cfg),
              LAMBDA rendered : Ok(Append(children, TextNode(rendered))))
    ELSE IF elem.kind = "twiml"
    THEN Ok(Append(children, TagNode(elem.attr, elem.text, "")))
    ELSE Ok(Append(children, TagNode(elem.attr, elem.text, elem.interpret_as)))

RECURSIVE SayLoop(_, _, _)
SayLoop(children, elems, cfg) ==
    IF elems = <<>> THEN Ok(children)
    ELSE Bind(SayAttach(children, Head(elems), cfg),
              LAMBDA c : SayLoop(c, Tail(elems), cfg))

SayElem(voice, loop, children) ==
    [verb |-> "Say", voice |-> voice, loop |-> loop, children |-> children]

\* Mutant: each string is rendered and attached as it stands in the list.
say_NoConcat(children, voice, loop, cfg) ==
    Bind(SayLoop(<<>>, wrap_in_list(children), cfg),
         LAMBDA c : Ok(SayElem(voice, loop, c)))

\* say(children, **kwargs): kwargs are voice and, for the menu, loop
say(children, voice, loop, cfg) ==
    Bind(SayLoop(<<>>, concat_consecutive_strings(wrap_in_list(children)), cfg),
         LAMBDA c : Ok(SayElem(voice, loop, c)))

say_as_machine(messages, loop, cfg) == say(messages, cfg.machine_voice, loop, cfg)

say_as_human(messages, loop, cfg) == say(messages, cfg.human_voice, loop, cfg)

NoLoop == <<>>

\* ------------------------------------------------------------------
\* Directives (CallbackSideEffect) and handler references (CallbackAction)
\* ------------------------------------------------------------------
NOOP == "NOOP"

RETURN_TO_MENU == "RETURN_TO_MENU"

HANGUP == "HANGUP"

\* partial(CallbackActions.say_message, DynamicMessages.<message>)
SayMessage(message) == [kind |-> "say_message", message |-> message]

\* partial(CallbackActions.say_message_and_hangup, DynamicMessages.<message>)
SayMessageAndHangup(message) == [kind |-> "say_message_and_hangup", message |-> message]

PromptVoiceReply == [kind |-> "prompt_voice_reply", message |-> ""]

\* lambda _res: CallbackSideEffect.RETURN_TO_MENU
Fallback == [kind |-> "fallback", message |-> ""]

MenuItem(digits, prompt, callback_action) ==
    [digits |-> digits, prompt |-> prompt, callback_action |-> callback_action]

\* Mutant: a fourth key says the parting prompt and hangs up.
InteractiveMenu_WithHangup ==
    << MenuItem("1", <<"to", " play the message again">>, SayMessage("main")),
       MenuItem("2", <<"for", " the sender's email address">>, SayMessage("email_address")),
       MenuItem("3", <<"to", " record a voice message to be sent back">>, PromptVoiceReply),
       MenuItem("9", <<"to", " end the call">>, SayMessageAndHangup("parting")) >>

\* The mapping from numpad keys to MenuItems, in insertion order.
InteractiveMenu ==
    << MenuItem("1", <<"to", " play the message again">>, SayMessage("main")),
       MenuItem("2", <<"for", " the sender's email address">>, SayMessage("email_address")),
       MenuItem("3", <<"to", " record a voice message to be sent back">>, PromptVoiceReply) >>

MenuKeys(m) == {m[i].digits : i \in 1..Len(m)}

\* Mutant: the lookup answers with the first item whenever the key exists.
MenuGet_First(m, digits) == IF digits \in MenuKeys(m) THEN <<m[1]>> ELSE <<>>

\* dict.get(digits): the item of that key, or None
MenuGet(m, digits) ==
    IF digits \in MenuKeys(m)
    THEN <<m[CHOOSE i \in 1..Len(m) : m[i].digits = digits]>>
    ELSE <<>>

\* ------------------------------------------------------------------
\* URLs: url_for(endpoint, _external=...) under BASE_URL
\* ------------------------------------------------------------------
url_for(path, external, cfg) == IF external THEN <<cfg.BASE_URL, path>> ELSE <<path>>

\* ------------------------------------------------------------------
\* Instructions of a VoiceResponse
\* ------------------------------------------------------------------
Pause(length) == [verb |-> "Pause", length |-> length]

Hangup == [verb |-> "Hangup"]

Gather(action, body) ==
    [verb |-> "Gather", num_digits |-> 1, action |-> action, method |-> "POST",
     timeout |-> 120, children |-> body]

Record(action, transcribe_callback) ==
    [verb |-> "Record", action |-> action, play_beep |-> TRUE, method |-> "POST",
     max_length |-> 120, transcribe_callback |-> transcribe_callback]

\* ------------------------------------------------------------------
\* DynamicMessages
\* ------------------------------------------------------------------
IntroText == <<"Hello", ", this is a voice message from ", "$", "from_name", " about ", "$", "subject", ".">>

PartingText ==
    <<"Thank", " you. Your reply will be delivered to ", "$", "from_name",
      ". I hope you have a nice day.">>

MainText == <<"$", "main_message">>

EmailLead == <<"My", " email address is,">>

intro(cfg) == say_as_machine(Single(Str(IntroText)), NoLoop, cfg)

\* Mutant: the parting prompt is spoken in the human voice.
parting_AsHuman(cfg) == say_as_human(Single(Str(PartingText)), NoLoop, cfg)

parting(cfg) == say_as_machine(Single(Str(PartingText)), NoLoop, cfg)

main(cfg) == say_as_human(Single(Str(MainText)), NoLoop, cfg)

email_address(cfg) ==
    Bind(render_template(<<"$", "email">>, cfg),
         LAMBDA email :
            say_as_human(List(<<Str(EmailLead), ssml("say_as", email, "spell-out")>>),
                         NoLoop, cfg))

Message(name, cfg) ==
    CASE name = "intro" -> intro(cfg)
      [] name = "parting" -> parting(cfg)
      [] name = "main" -> main(cfg)
      [] name = "email_address" -> email_address(cfg)

\* ------------------------------------------------------------------
\* CompositeActions.say_menu
\* ------------------------------------------------------------------
MenuTail ==
    << Str(<<"Press", " any other key to repeat the options. ">>),
       Str(<<"Or", ", please feel free to hang up now. ">>),
       Str(<<"I", " will wait for 2 minutes before ending the call.">>) >>

\* Mutant: the index of the first entry is taken to be 1.
Prefix_OneBased(index) == IF index = 1 THEN <<"Please", " press">> ELSE <<"Press">>

Prefix(index) == IF index = 0 THEN <<"Please", " press">> ELSE <<"Press">>

\* f"{prefix} {digits} {menu_item.prompt}. " for the entry at 0-based index
Option(index, item) ==
    Str(Prefix(index) \o <<" ", item.digits, " ">> \o item.prompt \o <<". ">>)

Options(m) == [i \in 1..Len(m) |-> Option(i - 1, m[i])] \o MenuTail

ClosingText == <<"Okay", ", thank you very much!">>

\* Mutant: the closing remark is appended inside the gather block.
say_menu_ClosingInGather(m, response, external, cfg) ==
    Bind(say_as_machine(List(Options(m)), <<1>>, cfg),
         LAMBDA body :
            Bind(say_as_machine(Single(Str(ClosingText)), NoLoop, cfg),
                 LAMBDA closing :
                    Ok(response
                       \o <<Gather(url_for("/menu-callback", external, cfg),
                                   <<body, closing>>)>>)))

say_menu(m, response, external, cfg) ==
    Bind(say_as_machine(List(Options(m)), <<1>>, cfg),
         LAMBDA body :
            Bind(say_as_machine(Single(Str(ClosingText)), NoLoop, cfg),
                 LAMBDA closing :
                    Ok(response
                       \o <<Gather(url_for("/menu-callback", external, cfg), <<body>>)>>
                       \o <<closing>>)))

\* ------------------------------------------------------------------
\* CallbackActions: append to the response, return a directive
\* val = [response, side_effect]
\* ------------------------------------------------------------------
Done(response, side_effect) == Ok([response |-> response, side_effect |-> side_effect])

\* Mutant: the pause after the message is forgotten.
say_message_NoPause(message, response, cfg) ==
    Bind(Message(message, cfg), LAMBDA m : Done(response \o <<m>>, RETURN_TO_MENU))

say_message(message, response, cfg) ==
    Bind(Message(message, cfg),
         LAMBDA m : Done(response \o <<m>> \o <<Pause(1)>>, RETURN_TO_MENU))

say_message_and_hangup(message, response, cfg) ==
    Bind(Message(message, cfg),
         LAMBDA m : Done(response \o <<m>> \o <<Pause(1)>>, HANGUP))

VoiceReplyText ==
    <<"Please", " leave a reply after you hear a beep. Press the pound sign to finish recording.">>

\* Mutant: after the record instruction the handler asks for the menu.
prompt_voice_reply_ThenMenu(response, cfg) ==
    Bind(say_as_machine(Single(Str(VoiceReplyText)), NoLoop, cfg),
         LAMBDA s :
            Done(response \o <<s>>
                 \o <<Record(url_for("/voice-reply-callback", FALSE, cfg),
                             url_for("/transcribe-callback", FALSE, cfg))>>,
                 RETURN_TO_MENU))

prompt_voice_reply(response, cfg) ==
    Bind(say_as_machine(Single(Str(VoiceReplyText)), NoLoop, cfg),
         LAMBDA s :
            Done(response \o <<s>>
                 \o <<Record(url_for("/voice-reply-callback", FALSE, cfg),
                             url_for("/transcribe-callback", FALSE, cfg))>>,
                 NOOP))

return_to_menu(response) == Done(response, RETURN_TO_MENU)

\* action(response): call the handler an action refers to
Invoke(action, response, cfg) ==
    CASE action.kind = "say_message" -> say_message(action.message, response, cfg)
      [] action.kind = "say_message_and_hangup" ->
            say_message_and_hangup(action.message, response, cfg)
      [] action.kind = "prompt_voice_reply" -> prompt_voice_reply(response, cfg)
      [] action.kind = "fallback" -> Done(response, RETURN_TO_MENU)

\* Mutant: the match statement has no case for HANGUP.
PerformSideEffect_NoHangup(done, m, cfg) ==
    CASE done.side_effect = RETURN_TO_MENU -> say_menu(m, done.response, FALSE, cfg)
      [] OTHER -> Ok(done.response)

\* Mutant: the menu is re-announced with the external callback URL.
PerformSideEffect_ExternalMenu(done, m, cfg) ==
    CASE done.side_effect = RETURN_TO_MENU -> say_menu(m, done.response, TRUE, cfg)
      [] done.side_effect = HANGUP -> Ok(done.response \o <<Hangup>>)
      [] OTHER -> Ok(done.response)

\* the match statement of run_callback_action, on what the action returned
PerformSideEffect(done, m, cfg) ==
    CASE done.side_effect = RETURN_TO_MENU -> say_menu(m, done.response, FALSE, cfg)
      [] done.side_effect = HANGUP -> Ok(done.response \o <<Hangup>>)
      [] OTHER -> Ok(done.response)

\* run_callback_action: invoke the action, then perform its side effect.
\* The menu announced is the module's interactive_menu (m).
run_callback_action(action, response, m, cfg) ==
    Bind(Invoke(action, response, cfg), LAMBDA done : PerformSideEffect(done, m, cfg))

\* ------------------------------------------------------------------
\* Configuration (IVMConfig and BASE_URL), fixed when the app is created
\* ------------------------------------------------------------------
Name(n) == <<n>>

\* the variables of the test fixture
FullVariables ==
    [n \in {Name("from_name"), Name("subject"), Name("main_message"), Name("email")} |->
        CASE n = Name("from_name") -> <<"From">>
          [] n = Name("subject") -> <<"Apple">>
          [] n = Name("main_message") -> <<"Apples", " are red">>
          [] n = Name("email") -> <<"test", "@example.com">>]

Without(variables, n) == [k \in DOMAIN variables \ {n} |-> variables[k]]

With(variables, n, v) == [k \in DOMAIN variables \cup {n} |-> IF k = n THEN v ELSE variables[k]]

VariableMaps ==
    {FullVariables}
    \cup {Without(FullVariables, n) : n \in DOMAIN FullVariables}
    \cup {With(FullVariables, Name("from_name"), <<"$", "subject">>),
          With(FullVariables, Name("main_message"), <<"$", "email", " owes ", "$", "5">>)}

\* <<machine_voice, human_voice>>: the defaults of IVMConfig, and an override
VoicePairs == {<<"Polly.Matthew-Neural", "Polly.Salli-Neural">>, <<"man", "alice">>}

Configs ==
    {[machine_voice |-> v[1], human_voice |-> v[2],
      BASE_URL |-> "http://localhost:5000", variables |-> vm] :
        v \in VoicePairs, vm \in VariableMaps}

\* ------------------------------------------------------------------
\* Requests and responses
\* ------------------------------------------------------------------
DigitsValues == {"", "1", "2", "3", "9", "12", "#"}

\* a form is a set of <<field, value>> pairs
Forms ==
    {{}} \cup {{<<"Digits", d>>} : d \in DigitsValues}
         \cup {{<<"TranscriptionText", "hello">>}}

HasField(form, f) == \E p \in form : p[1] = f

Field(form, f) == (CHOOSE p \in form : p[1] = f)[2]

Request(id, path, form) == [id |-> id, path |-> path, form |-> form]

\* render_twiml(resp): the markup of the response builder `builder`
Markup(body, builder) ==
    [status |-> 200, kind |-> "twiml", body |-> body, error |-> "none", builder |-> builder]

\* an exception that escapes the view function
Failure(status, e, builder) ==
    [status |-> status, kind |-> "error", body |-> <<>>, error |-> e, builder |-> builder]

Plain(kind, body, builder) ==
    [status |-> 200, kind |-> kind, body |-> body, error |-> "none", builder |-> builder]

HasVerb(body, v) == \E i \in 1..Len(body) : body[i].verb = v

\* What the provider does with the markup it is answered with: it follows
\* the last instruction that continues or ends the live call.
LiveStates == {"AwaitingMenuChoice", "AwaitingRecording"}

NextCallState(cs, r) ==
    IF cs \notin LiveStates \/ r.kind # "twiml" THEN cs
    ELSE IF HasVerb(r.body, "Hangup") THEN "Terminated"
    ELSE IF HasVerb(r.body, "Record") THEN "AwaitingRecording"
    ELSE IF HasVerb(r.body, "Gather") THEN "AwaitingMenuChoice"
    ELSE cs

\* One invocation of an action by run_callback_action: the action, the
\* response builder it was given, and the directive it returned.
Called(action, builder, returned) ==
    [action |-> action, builder |-> builder,
     side_effect |-> IF returned.err = "none" THEN returned.val.side_effect ELSE "raised"]

\* side_effect = action(response), as run_callback_action records it
Calling(action, builder, cfg) == <<Called(action, builder, Invoke(action, <<>>, cfg))>>

\* ------------------------------------------------------------------
\* HTTP routes
\* ------------------------------------------------------------------
TypeOK ==
    /\ config \in Configs
    /\ nreq \in 0..MaxRequests
    /\ attempts \in 0..1
    /\ callState \in {"NoCall", "AwaitingMenuChoice", "AwaitingRecording", "Terminated"}

\* GET /
handle_index_page ==
    /\ nreq < MaxRequests
    /\ nreq' = nreq + 1
    /\ req' = Request(nreq + 1, "/", {})
    /\ resp' = Plain("html", <<>>, 0)
    /\ invoked' = <<>>
    /\ attempts' = 0
    /\ UNCHANGED <<config, menu, callState, fin, fout, threads, builders>>

\* Mutant: the opening menu uses the internal callback form.
StartScript_InternalMenu(m, cfg) ==
    Bind(intro(cfg), LAMBDA i :
    Bind(main(cfg), LAMBDA n :
    Bind(email_address(cfg), LAMBDA e :
        say_menu(m, <<i, Pause(1), n, e, Pause(1)>>, FALSE, cfg))))

\* The script start_call builds before it places the call.
StartScript(m, cfg) ==
    Bind(intro(cfg), LAMBDA i :
    Bind(main(cfg), LAMBDA n :
    Bind(email_address(cfg), LAMBDA e :
        say_menu(m, <<i, Pause(1), n, e, Pause(1)>>, TRUE, cfg))))

ProviderOutcomes == {"created", "auth_failure", "invalid_number", "network_failure"}

\* client.calls.create(...) and the summary returned
PlaceCall(script, outcome, id) ==
    IF outcome = "created" THEN Plain("text", script, id) ELSE Failure(500, outcome, id)

\* the answer to a request whose handling ended in r
Respond(r, id) == IF r.err = "none" THEN Markup(r.val, id) ELSE Failure(500, r.err, id)

StartCallResponse(script, outcome, id) ==
    IF script.err = "none" THEN PlaceCall(script.val, outcome, id)
    ELSE Failure(500, script.err, id)

\* Mutant: a failed call placement is tried a second time.
start_call_Retries ==
    /\ nreq < MaxRequests
    /\ \E form \in Forms, first \in ProviderOutcomes, second \in ProviderOutcomes :
        /\ req' = Request(nreq + 1, "/calls", form)
        /\ resp' = StartCallResponse(StartScript(menu, config),
                                     IF first = "created" THEN first ELSE second, nreq + 1)
        /\ attempts' = IF resp'.error \in {"KeyError", "ValueError"} THEN 0
                       ELSE IF first = "created" THEN 1 ELSE 2
    /\ invoked' = <<>>
    /\ callState' = IF resp'.status = 200 THEN "AwaitingMenuChoice" ELSE callState
    /\ nreq' = nreq + 1
    /\ UNCHANGED <<config, menu, fin, fout, threads, builders>>

\* POST /calls
start_call ==
    /\ nreq < MaxRequests
    /\ \E form \in Forms, outcome \in ProviderOutcomes :
        /\ req' = Request(nreq + 1, "/calls", form)
        /\ resp' = StartCallResponse(StartScript(menu, config), outcome, nreq + 1)
    /\ invoked' = <<>>
    /\ attempts' = IF resp'.error \in {"KeyError", "ValueError"} THEN 0 ELSE 1
    /\ callState' = IF resp'.status = 200 THEN "AwaitingMenuChoice" ELSE callState
    /\ nreq' = nreq + 1
    /\ UNCHANGED <<config, menu, fin, fout, threads, builders>>

\* Mutant: a keypress that is no key falls to the first menu item.
ChosenAction_FirstItem(m, digits) ==
    IF MenuGet(m, digits) # <<>> THEN MenuGet(m, digits)[1].callback_action
    ELSE m[1].callback_action

\* menu_item.callback_action if menu_item else the fallback lambda
ChosenAction(m, digits) ==
    LET menu_item == MenuGet(m, digits)
    IN  IF menu_item # <<>> THEN menu_item[1].callback_action ELSE Fallback

\* Mutant: the lookup takes the item out of the menu (dict.pop).
handle_menu_callback_Pops ==
    /\ nreq < MaxRequests
    /\ \E form \in Forms :
        /\ req' = Request(nreq + 1, "/menu-callback", form)
        /\ IF ~HasField(form, "Digits")
           THEN /\ resp' = Failure(400, "BadRequestKeyError", nreq + 1)
                /\ invoked' = <<>>
                /\ menu' = menu
           ELSE /\ invoked' = Calling(ChosenAction(menu, Field(form, "Digits")), nreq + 1, config)
                /\ resp' = Respond(run_callback_action(invoked'[1].action, <<>>, menu, config),
                                   nreq + 1)
                /\ menu' = SelectSeq(menu, LAMBDA item : item.digits # Field(form, "Digits"))
    /\ callState' = NextCallState(callState, resp')
    /\ attempts' = 0
    /\ nreq' = nreq + 1
    /\ UNCHANGED <<config, fin, fout, threads, builders>>

\* POST /menu-callback
handle_menu_callback ==
    /\ nreq < MaxRequests
    /\ \E form \in Forms :
        /\ req' = Request(nreq + 1, "/menu-callback", form)
        /\ IF ~HasField(form, "Digits")
           THEN /\ resp' = Failure(400, "BadRequestKeyError", nreq + 1)
                /\ invoked' = <<>>
           ELSE /\ invoked' = Calling(ChosenAction(menu, Field(form, "Digits")), nreq + 1, config)
                /\ resp' = Respond(run_callback_action(invoked'[1].action, <<>>, menu, config),
                                   nreq + 1)
    /\ callState' = NextCallState(callState, resp')
    /\ attempts' = 0
    /\ nreq' = nreq + 1
    /\ UNCHANGED <<config, menu, fin, fout, threads, builders>>

\* Mutant: the recording callback is refused unless a recording is awaited.
handle_voice_reply_callback_OnlyWhenRecording ==
    /\ nreq < MaxRequests
    /\ \E form \in Forms :
        req' = Request(nreq + 1, "/voice-reply-callback", form)
    /\ invoked' = Calling(SayMessageAndHangup("parting"), nreq + 1, config)
    /\ resp' = IF callState = "AwaitingRecording"
               THEN Respond(run_callback_action(invoked'[1].action, <<>>, menu, config),
                            nreq + 1)
               ELSE Failure(500, "NotRecording", nreq + 1)
    /\ callState' = NextCallState(callState, resp')
    /\ attempts' = 0
    /\ nreq' = nreq + 1
    /\ UNCHANGED <<config, menu, fin, fout, threads, builders>>

\* POST /voice-reply-callback
handle_voice_reply_callback ==
    /\ nreq < MaxRequests
    /\ \E form \in Forms :
        req' = Request(nreq + 1, "/voice-reply-callback", form)
    /\ invoked' = Calling(SayMessageAndHangup("parting"), nreq + 1, config)
    /\ resp' = Respond(run_callback_action(invoked'[1].action, <<>>, menu, config), nreq + 1)
    /\ callState' = NextCallState(callState, resp')
    /\ attempts' = 0
    /\ nreq' = nreq + 1
    /\ UNCHANGED <<config, menu, fin, fout, threads, builders>>

\* Mutant: the transcription callback ends the live call.
handle_transcribe_callback_EndsCall ==
    /\ nreq < MaxRequests
    /\ \E form \in Forms :
        req' = Request(nreq + 1, "/transcribe-callback", form)
    /\ resp' = Plain("empty", <<>>, 0)
    /\ invoked' = <<>>
    /\ attempts' = 0
    /\ nreq' = nreq + 1
    /\ callState' = IF callState \in LiveStates THEN "Terminated" ELSE callState
    /\ UNCHANGED <<config, menu, fin, fout, threads, builders>>

\* POST /transcribe-callback
handle_transcribe_callback ==
    /\ nreq < MaxRequests
    /\ \E form \in Forms :
        req' = Request(nreq + 1, "/transcribe-callback", form)
    /\ resp' = Plain("empty", <<>>, 0)
    /\ invoked' = <<>>
    /\ attempts' = 0
    /\ nreq' = nreq + 1
    /\ UNCHANGED <<config, menu, callState, fin, fout, threads, builders>>

NoInput == [op |-> "none"]

NoOutput == [err |-> "pending", val |-> <<>>]

\* no request is being handled
NoThreads == <<>>

\* create_app: the state once the app is created
Init ==
    /\ config \in Configs
    /\ menu = InteractiveMenu
    /\ callState = "NoCall"
    /\ req = Request(0, "", {})
    /\ resp = [status |-> 0, kind |-> "none", body |-> <<>>, error |-> "none", builder |-> 0]
    /\ invoked = <<>>
    /\ attempts = 0
    /\ nreq = 0
    /\ fin = NoInput
    /\ fout = NoOutput
    /\ threads = NoThreads
    /\ builders = <<>>

Next ==
    \/ handle_index_page
    \/ start_call
    \/ handle_menu_callback
    \/ handle_voice_reply_callback
    \/ handle_transcribe_callback

Spec == Init /\ [][Next]_vars

\* ------------------------------------------------------------------
\* The prompt renderer and the menu builder on their own: the input is
\* drawn at the start, one step applies the function to it.
\* ------------------------------------------------------------------
SeqsUpTo(S, n) == UNION {[1..k -> S] : k \in 0..n}

DefaultConfig ==
    [machine_voice |-> "Polly.Matthew-Neural", human_voice |-> "Polly.Salli-Neural",
     BASE_URL |-> "http://localhost:5000", variables |-> FullVariables]

ConfigWith(variables) == [DefaultConfig EXCEPT !.variables = variables]

Idle ==
    /\ config = DefaultConfig
    /\ menu = InteractiveMenu
    /\ callState = "NoCall"
    /\ req = Request(0, "", {})
    /\ resp = [status |-> 0, kind |-> "none", body |-> <<>>, error |-> "none", builder |-> 0]
    /\ invoked = <<>>
    /\ attempts = 0
    /\ nreq = 0

\* --- say ---
TextAtoms == {"$", "a", " "}

Texts == SeqsUpTo(TextAtoms, MaxText)

Pieces ==
    {Str(t) : t \in Texts}
    \cup {ssml("say_as", <<"a">>, "spell-out"), TwiMLElem("break", <<>>)}

SayVariables == { [n \in {Name("a")} |-> <<"$", "a">>], [n \in {} |-> <<>>] }

InitSay ==
    /\ Idle
    /\ fin \in [op : {"say"},
                children : {List(es) : es \in SeqsUpTo(Pieces, MaxPieces)}
                           \cup {Single(e) : e \in Pieces},
                variables : SayVariables]
    /\ fout = NoOutput
    /\ threads = NoThreads
    /\ builders = <<>>

ApplySay ==
    /\ fin.op = "say"
    /\ fout = NoOutput
    /\ fout' = say_as_human(fin.children, NoLoop, ConfigWith(fin.variables))
    /\ UNCHANGED <<config, menu, callState, req, resp, invoked, attempts, nreq, fin, threads, builders>>

SpecSay == InitSay /\ [][ApplySay]_vars

\* --- say_menu ---
KeySamples == {"1", "2", "3", "9"}

PromptSamples == {<<"to", " play the message again">>, <<"for", " the sender's email address">>}

MenuItems == {MenuItem(k, p, SayMessage("main")) : k \in KeySamples, p \in PromptSamples}

\* a dict has one item per key
Menus ==
    {m \in SeqsUpTo(MenuItems, MaxMenu) :
        \A i, j \in 1..Len(m) : m[i].digits = m[j].digits => i = j}

InitMenu ==
    /\ Idle
    /\ fin \in [op : {"say_menu"}, menu : Menus, external : BOOLEAN]
    /\ fout = NoOutput
    /\ threads = NoThreads
    /\ builders = <<>>

ApplySayMenu ==
    /\ fin.op = "say_menu"
    /\ fout = NoOutput
    /\ fout' = say_menu(fin.menu, <<>>, fin.external, config)
    /\ UNCHANGED <<config, menu, callState, req, resp, invoked, attempts, nreq, fin, threads, builders>>

SpecMenu == InitMenu /\ [][ApplySayMenu]_vars

\* ------------------------------------------------------------------
\* Requests handled concurrently: each request runs its view function in
\* a thread of its own, one statement group at a time; `builders` is the
\* heap of VoiceResponse objects, `threads[t].response` the local variable
\* `response` of the view function that thread t runs.
\* ------------------------------------------------------------------
MaxThreads == 2

Threads == 1..MaxThreads

ThreadPaths == {"/calls", "/menu-callback", "/voice-reply-callback"}

ThreadForms == {{}, {<<"Digits", "1">>}, {<<"Digits", "3">>}}

NoResult == [status |-> 0, kind |-> "none", body |-> <<>>, error |-> "none", builder |-> 0]

IdleThread ==
    [pc |-> "idle", path |-> "", form |-> {}, response |-> 0, action |-> Fallback,
     side_effect |-> NOOP, appended |-> <<>>, result |-> NoResult]

\* Mutant: one module-level builder is handed to every request.
VoiceResponse_Shared(heap) == 1

\* VoiceResponse(): the identity of the object the constructor allocates
VoiceResponse(heap) == Len(heap) + 1

\* the heap after the constructor returned the object `id`
Allocate(heap, id) == IF id \in DOMAIN heap THEN heap ELSE Append(heap, <<>>)

\* the action a view function hands to run_callback_action
ActionOf(path, form) ==
    IF path = "/menu-callback" THEN ChosenAction(menu, Field(form, "Digits"))
    ELSE SayMessageAndHangup("parting")

\* start_call: the messages appended before the menu
StartMessages(response, cfg) ==
    Bind(intro(cfg), LAMBDA i :
    Bind(main(cfg), LAMBDA n :
    Bind(email_address(cfg), LAMBDA e :
        Done(response \o <<i, Pause(1), n, e, Pause(1)>>, "external_menu"))))

\* the server accepts a request and starts a thread for it
Accept(t) ==
    /\ threads[t].pc = "idle"
    /\ \E path \in ThreadPaths, form \in ThreadForms :
        /\ path # "/menu-callback" => form = {}
        /\ threads' = [threads EXCEPT ![t].pc = "accepted", ![t].path = path,
                                      ![t].form = form]
    /\ UNCHANGED <<config, menu, callState, req, resp, invoked, attempts, nreq, fin, fout,
                   builders>>

\* response = VoiceResponse(), and the read of request.form["Digits"]
NewResponse(t) ==
    /\ threads[t].pc = "accepted"
    /\ builders' = Allocate(builders, VoiceResponse(builders))
    /\ threads' =
        IF threads[t].path = "/menu-callback" /\ ~HasField(threads[t].form, "Digits")
        THEN [threads EXCEPT ![t].pc = "done",
                             ![t].response = VoiceResponse(builders),
                             ![t].result = Failure(400, "BadRequestKeyError",
                                                   VoiceResponse(builders))]
        ELSE [threads EXCEPT ![t].pc = "act",
                             ![t].response = VoiceResponse(builders),
                             ![t].action = IF threads[t].path = "/calls" THEN Fallback
                                           ELSE ActionOf(threads[t].path, threads[t].form)]
    /\ UNCHANGED <<config, menu, callState, req, resp, invoked, attempts, nreq, fin, fout>>

\* the instructions a call appended to a builder that held `before`
Suffix(before, after) == SubSeq(after, Len(before) + 1, Len(after))

\* thread t made a call on its builder that ended in r (the builder's new
\* content, or an exception that escapes the view function)
Returned(t, r, pc) ==
    /\ builders' = IF r.err = "none"
                   THEN [builders EXCEPT ![threads[t].response] = r.val.response]
                   ELSE builders
    /\ threads' =
        IF r.err = "none"
        THEN [threads EXCEPT ![t].pc = pc,
                             ![t].side_effect = r.val.side_effect,
                             ![t].appended = @ \o Suffix(builders[threads[t].response],
                                                         r.val.response)]
        ELSE [threads EXCEPT ![t].pc = "done",
                             ![t].result = Failure(500, r.err, threads[t].response)]
    /\ UNCHANGED <<config, menu, callState, req, resp, invoked, attempts, nreq, fin, fout>>

\* side_effect = action(response) in run_callback_action; in start_call,
\* the appends before the menu
CallAction(t) ==
    /\ threads[t].pc = "act"
    /\ Returned(t,
                IF threads[t].path = "/calls"
                THEN StartMessages(builders[threads[t].response], config)
                ELSE Invoke(threads[t].action, builders[threads[t].response], config),
                "effect")

\* what a step that appended `response` leaves in the thread
Kept(response, side_effect) == Bind(response, LAMBDA v : Done(v, side_effect))

\* the match statement of run_callback_action; in start_call, say_menu
MatchSideEffect(t) ==
    /\ threads[t].pc = "effect"
    /\ Returned(t,
                Kept(IF threads[t].path = "/calls"
                     THEN say_menu(menu, builders[threads[t].response], TRUE, config)
                     ELSE PerformSideEffect(
                              [response |-> builders[threads[t].response],
                               side_effect |-> threads[t].side_effect], menu, config),
                     threads[t].side_effect),
                "render")

\* return render_twiml(response); in start_call, client.calls.create and
\* the summary
Return(t) ==
    /\ threads[t].pc = "render"
    /\ \E outcome \in ProviderOutcomes :
        /\ threads[t].path # "/calls" => outcome = "created"
        /\ threads' = [threads EXCEPT
              ![t].pc = "done",
              ![t].result =
                  IF threads[t].path = "/calls"
                  THEN PlaceCall(builders[threads[t].response], outcome,
                                 threads[t].response)
                  ELSE Markup(builders[threads[t].response], threads[t].response)]
    /\ UNCHANGED <<config, menu, callState, req, resp, invoked, attempts, nreq, fin, fout,
                   builders>>

InitThreads ==
    /\ Idle
    /\ fin = NoInput
    /\ fout = NoOutput
    /\ threads = [t \in Threads |-> IdleThread]
    /\ builders = <<>>

NextThreads ==
    \E t \in Threads :
        \/ Accept(t)
        \/ NewResponse(t)
        \/ CallAction(t)
        \/ MatchSideEffect(t)
        \/ Return(t)

SpecThreads == InitThreads /\ [][NextThreads]_vars

\* ------------------------------------------------------------------
\* Claims
\* ------------------------------------------------------------------
Defined(n) == Name(n) \in DOMAIN config.variables

Value(n) == config.variables[Name(n)]

MenuCallbackWith(d) ==
    req.path = "/menu-callback" /\ HasField(req.form, "Digits") /\ Field(req.form, "Digits") = d

\* the closing remark of the menu, in the machine voice
ClosingRemark == SayElem(config.machine_voice, NoLoop, <<TextNode(ClosingText)>>)

IsMachineGather(v, action) ==
    /\ v.verb = "Gather"
    /\ v.action = action
    /\ Len(v.children) = 1
    /\ v.children[1].verb = "Say"
    /\ v.children[1].voice = config.machine_voice

VerbsOf(body) == [i \in 1..Len(body) |-> body[i].verb]

\* C1: a POST /menu-callback whose Digits value is no key of the menu (empty,
\* several characters, or an unmapped character) is answered with a markup
\* document, not an error: the fallback is the one action invoked, it returns
\* RETURN_TO_MENU, and the response is the menu alone: one gather (internal
\* callback) and the closing remark, with no message, pause, record or hang-up.
C1_UnmappedKeypressReturnsToMenu ==
    \A d \in DigitsValues \ MenuKeys(menu) :
        MenuCallbackWith(d) =>
            /\ resp.status = 200 /\ resp.kind = "twiml"
            /\ Len(invoked) = 1
            /\ invoked[1].action = Fallback
            /\ invoked[1].side_effect = RETURN_TO_MENU
            /\ VerbsOf(resp.body) = <<"Gather", "Say">>
            /\ IsMachineGather(resp.body[1], <<"/menu-callback">>)
            /\ resp.body[2] = ClosingRemark

C1_Witness ==
    /\ MenuCallbackWith("12")
    /\ resp.status = 200
    /\ VerbsOf(resp.body) = <<"Gather", "Say">>

\* C2: a POST /menu-callback whose Digits value k is a key of the menu invokes
\* the handler of entry k, once, on the response builder of that request, and
\* invokes neither another entry's handler nor the fallback.
C2_MappedKeypressInvokesItsHandler ==
    \A i \in 1..Len(menu) :
        MenuCallbackWith(menu[i].digits) =>
            /\ Len(invoked) = 1
            /\ invoked[1].action = menu[i].callback_action
            /\ invoked[1].action # Fallback
            /\ \A j \in 1..Len(menu) :
                  j # i => invoked[1].action # menu[j].callback_action
            /\ invoked[1].builder = req.id
            /\ resp.builder = req.id

C2_Witness ==
    /\ MenuCallbackWith("2")
    /\ invoked = <<[action |-> SayMessage("email_address"), builder |-> req.id,
                    side_effect |-> RETURN_TO_MENU]>>

\* C3: POST /menu-callback with digit "1" (replay the main message), the
\* variable main_message being configured, answers with exactly: the main
\* message in the human voice, a pause of 1 second, the gather with the
\* internal callback, the closing remark.
C3_ReplayMainMessage ==
    (MenuCallbackWith("1") /\ Defined("main_message")) =>
        /\ resp.status = 200 /\ resp.kind = "twiml"
        /\ VerbsOf(resp.body) = <<"Say", "Pause", "Gather", "Say">>
        /\ resp.body[1] =
              SayElem(config.human_voice, NoLoop, <<TextNode(Value("main_message"))>>)
        /\ resp.body[2] = Pause(1)
        /\ IsMachineGather(resp.body[3], <<"/menu-callback">>)
        /\ resp.body[4] = ClosingRemark

C3_Witness ==
    /\ MenuCallbackWith("1")
    /\ Defined("main_message")
    /\ Len(resp.body) = 4
    /\ resp.body[1].voice = "alice"

\* the parting prompt with from_name put in place, whatever its voice
IsPartingPrompt(v) ==
    /\ v.verb = "Say"
    /\ v.children =
          <<TextNode(<<"Thank", " you. Your reply will be delivered to ">>
                     \o Value("from_name")
                     \o <<". I hope you have a nice day.">>)>>

\* C4: a POST /voice-reply-callback, the variable from_name being configured,
\* answers with exactly the parting prompt, a pause of 1 second and a hang-up,
\* in this order; the directive is HANGUP, there is no gather, and the call,
\* if there is one, is Terminated.
C4_VoiceReplyHangsUp ==
    (req.path = "/voice-reply-callback" /\ Defined("from_name")) =>
        /\ resp.status = 200 /\ resp.kind = "twiml"
        /\ VerbsOf(resp.body) = <<"Say", "Pause", "Hangup">>
        /\ IsPartingPrompt(resp.body[1])
        /\ resp.body[2] = Pause(1)
        /\ resp.body[3] = Hangup
        /\ Len(invoked) = 1 /\ invoked[1].side_effect = HANGUP
        /\ callState \in {"NoCall", "Terminated"}

C4_Witness ==
    /\ req.path = "/voice-reply-callback"
    /\ Defined("from_name")
    /\ resp.status = 200
    /\ callState = "Terminated"

PartingAnswered == req.path = "/voice-reply-callback" /\ resp.status = 200

\* C5 as stated: the parting prompt answered by POST /voice-reply-callback is
\* stamped with the configured human voice.
C5_PartingInHumanVoice ==
    PartingAnswered => resp.body[1].voice = config.human_voice

\* C5 amended: the parting prompt answered by POST /voice-reply-callback is
\* stamped with the configured machine voice.
C5_PartingInMachineVoice ==
    PartingAnswered =>
        /\ IsPartingPrompt(resp.body[1])
        /\ resp.body[1].voice = config.machine_voice

C5_Witness ==
    /\ PartingAnswered
    /\ resp.body[1].voice = "man"
    /\ config.human_voice = "alice"

AllDefined == \A n \in {"from_name", "subject", "main_message", "email"} : Defined(n)

IntroExpected ==
    <<"Hello", ", this is a voice message from ">> \o Value("from_name")
    \o <<" about ">> \o Value("subject") \o <<".">>

EmailExpected ==
    <<TextNode(<<"My", " email address is,">>),
      TagNode("say_as", Value("email"), "spell-out")>>

\* C6: POST /calls, every variable being configured, fails only if the
\* provider fails, and otherwise the markup it built is, in this order: the
\* intro (machine voice), a pause, the main message (human voice), the email
\* prompt (human voice) with the email in a spell-out tag, a pause, the gather
\* with the external callback form, the closing remark; the call is then in
\* AwaitingMenuChoice.
C6_StartCallScript ==
    (req.path = "/calls" /\ AllDefined) =>
        /\ resp.error \in ProviderOutcomes \cup {"none"}
        /\ resp.status = 200 =>
            /\ VerbsOf(resp.body) = <<"Say", "Pause", "Say", "Say", "Pause", "Gather", "Say">>
            /\ resp.body[1] = SayElem(config.machine_voice, NoLoop, <<TextNode(IntroExpected)>>)
            /\ resp.body[2] = Pause(1)
            /\ resp.body[3] =
                  SayElem(config.human_voice, NoLoop, <<TextNode(Value("main_message"))>>)
            /\ resp.body[4] = SayElem(config.human_voice, NoLoop, EmailExpected)
            /\ resp.body[5] = Pause(1)
            /\ IsMachineGather(resp.body[6], <<config.BASE_URL, "/menu-callback">>)
            /\ resp.body[7] = ClosingRemark
            /\ callState = "AwaitingMenuChoice"

C6_Witness ==
    /\ req.path = "/calls"
    /\ AllDefined
    /\ resp.status = 200
    /\ Len(resp.body) = 7
    /\ callState = "AwaitingMenuChoice"

\* C7: a POST /transcribe-callback, whatever its payload and whatever the
\* state of the call, is answered with success and an empty body; it builds no
\* response, invokes no action, and leaves the call state, the configuration
\* and the menu as they were.
C7_TranscribeCallbackHasNoEffect ==
    [][(req'.path = "/transcribe-callback" /\ nreq' # nreq) =>
          /\ resp' = Plain("empty", <<>>, 0)
          /\ invoked' = <<>>
          /\ attempts' = 0
          /\ callState' = callState
          /\ config' = config
          /\ menu' = menu]_vars

C7_Witness ==
    /\ req.path = "/transcribe-callback"
    /\ HasField(req.form, "TranscriptionText")
    /\ resp.status = 200 /\ resp.kind = "empty"
    /\ callState = "AwaitingRecording"

\* the options of menu m from entry i on, as they are to be read aloud
RECURSIVE ExpectedOptions(_, _)
ExpectedOptions(m, i) ==
    IF i > Len(m) THEN <<>>
    ELSE (IF i = 1 THEN <<"Please", " press">> ELSE <<"Press">>)
         \o <<" ", m[i].digits, " ">> \o m[i].prompt \o <<". ">>
         \o ExpectedOptions(m, i + 1)

ExpectedTail ==
    <<"Press", " any other key to repeat the options. ",
      "Or", ", please feel free to hang up now. ",
      "I", " will wait for 2 minutes before ending the call.">>

IsKeyAtom(a) == a \in KeySamples

IsPlease(a) == a = "Please"

IsPress(a) == a \in {"Press", " press"}

\* C8: for a menu of N entries (N >= 0) say_menu announces N options, one per
\* entry in the order of the mapping, the first as "Please press <key>
\* <prompt>. " and the others as "Press <key> <prompt>. ", before the fixed
\* closing sentences.
C8_MenuAnnouncement ==
    fout # NoOutput =>
        /\ fout.err = "none"
        /\ Len(fout.val) = 2
        /\ IsMachineGather(fout.val[1], url_for("/menu-callback", fin.external, config))
        /\ LET spoken == fout.val[1].children[1].children
               N == Len(fin.menu)
           IN  /\ Len(spoken) = 1
               /\ spoken[1].node = "text"
               /\ spoken[1].text = ExpectedOptions(fin.menu, 1) \o ExpectedTail
               /\ SelectSeq(spoken[1].text, IsKeyAtom) = [i \in 1..N |-> fin.menu[i].digits]
               /\ Len(SelectSeq(spoken[1].text, IsPlease)) = (IF N = 0 THEN 0 ELSE 1)
               /\ Len(SelectSeq(spoken[1].text, IsPress)) = N + 1

C8_Witness ==
    /\ fout # NoOutput
    /\ fin.op = "say_menu"
    /\ Len(fin.menu) = 2
    /\ fin.menu[1].digits = "9" /\ fin.menu[2].digits = "1"
    /\ fout.err = "none"

\* what a list of pieces, or the children of a Say, spells: the atoms of the
\* texts and the names of the tags, in order
RECURSIVE SpellPieces(_)
SpellPieces(es) ==
    IF es = <<>> THEN <<>>
    ELSE (IF IsStr(Head(es)) THEN Head(es).text ELSE <<Head(es).attr>>)
         \o SpellPieces(Tail(es))

RECURSIVE SpellNodes(_)
SpellNodes(ch) ==
    IF ch = <<>> THEN <<>>
    ELSE (IF Head(ch).node = "text" THEN Head(ch).text ELSE <<Head(ch).tag>>)
         \o SpellNodes(Tail(ch))

IsTextNode(c) == c.node = "text"

IsTagNode(c) == c.node = "tag"

NotStr(e) == ~IsStr(e)

\* the places of es where a run of consecutive strings starts
RunStarts(es) == {i \in 1..Len(es) : IsStr(es[i]) /\ (i = 1 \/ ~IsStr(es[i - 1]))}

DollarFree(es) == \A i \in 1..Len(es) : \A k \in 1..Len(es[i].text) : es[i].text[k] # "$"

\* C9: say([a, b]) for literal texts a and b is say([a + b]), an error
\* included; and in every Say that is built each maximal run of consecutive
\* strings is one text child, strings that a tag separates stay apart, and
\* the tags and the texts keep their order.
C9_MergeLaw ==
    fout # NoOutput =>
        LET es == fin.children.items
        IN  /\ (fin.children.isList /\ Len(es) = 2 /\ IsStr(es[1]) /\ IsStr(es[2])) =>
                  fout = say_as_human(List(<<Str(es[1].text \o es[2].text)>>), NoLoop,
                                      ConfigWith(fin.variables))
            /\ fout.err = "none" =>
                  /\ \A i \in 1..(Len(fout.val.children) - 1) :
                        ~(IsTextNode(fout.val.children[i])
                          /\ IsTextNode(fout.val.children[i + 1]))
                  /\ Len(SelectSeq(fout.val.children, IsTextNode)) = Cardinality(RunStarts(es))
                  /\ SpellNodes(SelectSeq(fout.val.children, IsTagNode))
                        = SpellPieces(SelectSeq(es, NotStr))
                  /\ DollarFree(es) => SpellNodes(fout.val.children) = SpellPieces(es)

C9_Witness ==
    /\ fout # NoOutput
    /\ fin.op = "say"
    /\ fin.children = List(<<Str(<<"$">>), Str(<<"a">>)>>)
    /\ fout.err = "none"
    /\ fout.val.children = <<TextNode(<<"$", "a">>)>>

\* the variables the handling of the last request refers to
Referenced ==
    IF req.path = "/calls" THEN {"from_name", "subject", "main_message", "email"}
    ELSE IF req.path = "/voice-reply-callback" THEN {"from_name"}
    ELSE IF MenuCallbackWith("1") THEN {"main_message"}
    ELSE IF MenuCallbackWith("2") THEN {"email"}
    ELSE {}

\* the texts the last answer holds in place of the templates
SubstitutedOnce ==
    /\ req.path = "/calls" =>
          /\ resp.body[1].children = <<TextNode(IntroExpected)>>
          /\ resp.body[3].children = <<TextNode(Value("main_message"))>>
          /\ resp.body[4].children = EmailExpected
    /\ req.path = "/voice-reply-callback" => IsPartingPrompt(resp.body[1])
    /\ MenuCallbackWith("1") => resp.body[1].children = <<TextNode(Value("main_message"))>>
    /\ MenuCallbackWith("2") => resp.body[1].children = EmailExpected

\* C10: a request whose rendering refers to a variable that is not configured
\* is answered with an internal error (KeyError) and no markup; when every
\* variable referred to is configured, rendering does not fail and each
\* reference is replaced by the value of its variable, which is not itself
\* substituted again.
C10_MissingVariableIsFatal ==
    /\ (\E n \in Referenced : ~Defined(n)) =>
          /\ resp.status = 500 /\ resp.kind = "error"
          /\ resp.error = "KeyError"
          /\ resp.body = <<>>
    /\ (Referenced # {} /\ \A n \in Referenced : Defined(n)) =>
          /\ resp.error \notin {"KeyError", "ValueError"}
          /\ resp.status = 200 => SubstitutedOnce

C10_Witness ==
    /\ MenuCallbackWith("1")
    /\ ~Defined("main_message")
    /\ resp.status = 500
    /\ resp.error = "KeyError"

\* what a response says, apart from the builder it was made in
Content(r) == [status |-> r.status, kind |-> r.kind, body |-> r.body, error |-> r.error]

\* the answers to a request that depend on nothing but the request and the
\* static configuration (for /calls, also on what the provider answers)
HistoryFreeAnswers(path, form) ==
    IF path = "/menu-callback" THEN
        IF HasField(form, "Digits")
        THEN {Content(Respond(run_callback_action(
                  ChosenAction(InteractiveMenu, Field(form, "Digits")), <<>>,
                  InteractiveMenu, config), 0))}
        ELSE {Content(Failure(400, "BadRequestKeyError", 0))}
    ELSE IF path = "/voice-reply-callback" THEN
        {Content(Respond(run_callback_action(
            SayMessageAndHangup("parting"), <<>>, InteractiveMenu, config), 0))}
    ELSE IF path = "/transcribe-callback" THEN {Content(Plain("empty", <<>>, 0))}
    ELSE IF path = "/calls" THEN
        {Content(StartCallResponse(StartScript(InteractiveMenu, config), o, 0)) :
            o \in ProviderOutcomes}
    ELSE {Content(Plain("html", <<>>, 0))}

\* C11: no state is kept across requests: whatever requests were handled
\* before and whatever state the call is in, the answer to a request is the
\* one its path, its form and the static configuration determine.
C11_NoCrossRequestState ==
    nreq > 0 => Content(resp) \in HistoryFreeAnswers(req.path, req.form)

C11_Witness ==
    /\ req.path = "/menu-callback"
    /\ HasField(req.form, "Digits") /\ Field(req.form, "Digits") = "3"
    /\ callState = "Terminated"
    /\ resp.status = 200
    /\ HasVerb(resp.body, "Record")

\* thread t holds a builder
HasBuilder(t) == threads[t].response # 0

\* thread t has not been ended by an exception
Alive(t) == threads[t].result.kind # "error"

\* C12: whatever the interleaving of the requests being handled, each one
\* makes a builder no other request holds, the builder holds exactly the
\* instructions that request appended, and the markup returned is exactly
\* those instructions: the ones a request handled alone would return.
C12_OwnFreshBuilder ==
    \A t \in DOMAIN threads :
        HasBuilder(t) =>
            /\ \A u \in DOMAIN threads \ {t} :
                    HasBuilder(u) => threads[u].response # threads[t].response
            /\ Alive(t) => builders[threads[t].response] = threads[t].appended
            /\ threads[t].pc = "act" => builders[threads[t].response] = <<>>
            /\ (threads[t].pc = "done" /\ Alive(t)) =>
                    /\ threads[t].result.body = threads[t].appended
                    /\ Content(threads[t].result)
                            \in HistoryFreeAnswers(threads[t].path, threads[t].form)

\* a request that started later has returned its markup while an earlier
\* one is still between its action and its directive
C12_Witness ==
    \E t, u \in DOMAIN threads :
        /\ threads[t].pc = "done" /\ threads[t].result.kind = "twiml"
        /\ HasVerb(threads[t].result.body, "Record")
        /\ threads[u].pc = "effect" /\ threads[u].appended # <<>>
        /\ threads[u].response < threads[t].response

\* C13: the menu is fixed at startup: after any sequence of requests it has
\* the keys it had when the app was created, in the same order, each with
\* the same prompt and the same handler.
C13_MenuFixedAtStartup ==
    /\ Len(menu) = Len(InteractiveMenu)
    /\ \A i \in 1..Len(InteractiveMenu) :
        /\ menu[i].digits = InteractiveMenu[i].digits
        /\ menu[i].prompt = InteractiveMenu[i].prompt
        /\ menu[i].callback_action = InteractiveMenu[i].callback_action

\* a keypress is looked up after the menu was announced by an earlier request
C13_Witness ==
    /\ nreq >= 2
    /\ MenuCallbackWith("2")
    /\ resp.status = 200
    /\ Len(invoked) = 1 /\ invoked[1].action = menu[2].callback_action

\* the provider's failures when it is asked to place the call
ProviderFailures == ProviderOutcomes \ {"created"}

\* C14: when the provider fails while placing the call (auth failure,
\* invalid number, network failure), POST /calls fails as a request (500, no
\* summary, no markup) and the call was placed exactly once: no retry.
C14_ProviderFailurePropagates ==
    (req.path = "/calls" /\ resp.error \in ProviderFailures) =>
        /\ resp.status = 500
        /\ resp.kind = "error"
        /\ resp.body = <<>>
        /\ attempts = 1

\* the provider refused the number after an earlier call had been placed
C14_Witness ==
    /\ req.path = "/calls"
    /\ resp.error = "invalid_number"
    /\ callState = "AwaitingMenuChoice"
    /\ attempts = 1

\* the instructions the handler of an invocation appends by itself
OwnInstructions(inv) == Invoke(inv.action, <<>>, config).val.response

\* what run_callback_action appended after the handler returned
AfterHandler(inv, body) == SubSeq(body, Len(OwnInstructions(inv)) + 1, Len(body))

\* a webhook was answered with the markup run_callback_action built
AppliedDirective(inv, body, before, after) ==
    /\ SubSeq(body, 1, Len(OwnInstructions(inv))) = OwnInstructions(inv)
    /\ inv.side_effect = RETURN_TO_MENU =>
        /\ Len(AfterHandler(inv, body)) = 2
        /\ IsMachineGather(AfterHandler(inv, body)[1], <<"/menu-callback">>)
        /\ AfterHandler(inv, body)[2] = ClosingRemark
        /\ Cardinality({i \in 1..Len(body) : body[i].verb = "Gather"}) = 1
        /\ before = "AwaitingMenuChoice" => after = "AwaitingMenuChoice"
    /\ inv.side_effect = HANGUP =>
        /\ AfterHandler(inv, body) = <<Hangup>>
        /\ Cardinality({i \in 1..Len(body) : body[i].verb = "Hangup"}) = 1
        /\ before \in LiveStates => after = "Terminated"
    /\ inv.side_effect = NOOP => AfterHandler(inv, body) = <<>>

\* C15: in every step that answers a webhook with markup, the directive the
\* handler returned is applied after the handler's own instructions:
\* RETURN_TO_MENU appends exactly one menu announcement with the internal
\* callback and a call awaiting a menu choice keeps awaiting it; HANGUP
\* appends exactly one hang-up, as the last instruction, and a live call
\* becomes Terminated; NOOP appends nothing.
C15_DirectiveAppliedAfterHandler ==
    [][(nreq' = nreq + 1 /\ Len(invoked') = 1 /\ resp'.kind = "twiml") =>
            /\ invoked'[1].side_effect \in {RETURN_TO_MENU, HANGUP, NOOP}
            /\ AppliedDirective(invoked'[1], resp'.body, callState, callState')]_vars

\* the email address was said, then the menu announced once more
C15_Witness ==
    /\ MenuCallbackWith("2")
    /\ Len(invoked) = 1 /\ invoked[1].side_effect = RETURN_TO_MENU
    /\ resp.kind = "twiml"
    /\ VerbsOf(resp.body) = <<"Say", "Pause", "Gather", "Say">>
    /\ callState = "AwaitingMenuChoice"

\* request r is a keypress d sent to /menu-callback
Keypress(r, d) ==
    r.path = "/menu-callback" /\ HasField(r.form, "Digits") /\ Field(r.form, "Digits") = d

\* the answer of the record-a-reply handler followed by nothing
RecordPromptAlone(inv, answer) ==
    /\ inv.action = PromptVoiceReply
    /\ inv.side_effect = NOOP
    /\ answer.kind = "twiml"
    /\ Len(answer.body) = 2
    /\ answer.body[1] = SayElem(config.machine_voice, NoLoop, <<TextNode(VoiceReplyText)>>)
    /\ answer.body[2].verb = "Record"
    /\ answer.body[2].max_length = 120
    /\ answer.body[2].play_beep
    /\ answer.body[2].method = "POST"
    /\ answer.body[2].action = <<"/voice-reply-callback">>
    /\ answer.body[2].transcribe_callback = <<"/transcribe-callback">>
    /\ answer.body[2].transcribe_callback # answer.body[2].action

\* C16: every step that handles the keypress "3" invokes the record-a-reply
\* handler, which returns NOOP; the answer is the spoken instruction and then
\* one record (120 seconds at most, beep, POST to the recording callback, a
\* transcription callback of its own), with no menu and no hang-up; a call
\* awaiting a menu choice then awaits the recording, and no other request
\* moves a call from AwaitingMenuChoice to AwaitingRecording.
C16_RecordAReply ==
    [][nreq' = nreq + 1 =>
        /\ Keypress(req', "3") =>
            /\ Len(invoked') = 1
            /\ RecordPromptAlone(invoked'[1], resp')
            /\ ~HasVerb(resp'.body, "Gather")
            /\ ~HasVerb(resp'.body, "Hangup")
            /\ callState = "AwaitingMenuChoice" => callState' = "AwaitingRecording"
        /\ (callState = "AwaitingMenuChoice" /\ callState' = "AwaitingRecording") =>
                Keypress(req', "3")]_vars

\* the call placed by POST /calls awaits a recording after the keypress "3"
C16_Witness ==
    /\ MenuCallbackWith("3")
    /\ callState = "AwaitingRecording"
    /\ VerbsOf(resp.body) = <<"Say", "Record">>
    /\ invoked[1].side_effect = NOOP

\* the positions of the gather instructions of a markup
Gathers(body) == {i \in 1..Len(body) : body[i].verb = "Gather"}

\* C17: in every answer, a menu announcement is exactly one gather (one
\* keypress, POST, timeout 120, its body one machine-voice prompt) directly
\* followed by the machine-voice remark "Okay, thank you very much!", which
\* is the last instruction; no answer holds a gather without the remark.
C17_GatherThenClosingRemark ==
    \A i \in Gathers(resp.body) :
        /\ resp.body[i].num_digits = 1
        /\ resp.body[i].method = "POST"
        /\ resp.body[i].timeout = 120
        /\ Len(resp.body[i].children) = 1
        /\ resp.body[i].children[1].verb = "Say"
        /\ resp.body[i].children[1].voice = config.machine_voice
        /\ i + 1 = Len(resp.body)
        /\ resp.body[i + 1] =
                SayElem(config.machine_voice, NoLoop, <<TextNode(ClosingText)>>)
        /\ ClosingText = <<"Okay", ", thank you very much!">>
        /\ Gathers(resp.body) = {i}

\* the menu announced by POST /calls, after the messages
C17_Witness ==
    /\ req.path = "/calls"
    /\ resp.status = 200
    /\ Gathers(resp.body) = {6}
    /\ resp.body[6].action = <<config.BASE_URL, "/menu-callback">>
    /\ Len(resp.body) = 7

\* "${" and what follows it up to the end of the text could still be closed
OpenBrace(u) ==
    /\ u # <<>> /\ Head(u) = "{"
    /\ Len(u) = 1 \/ (IsIdStart(u[2]) /\ Len(IdRun(Tail(u))) = Len(u) - 1)

\* the text t ends inside a $-reference: a "$" that starts a match is its
\* last character, or the name after "$" or "${" runs to the end of t
RECURSIVE EndsInsideReference(_)
EndsInsideReference(t) ==
    IF t = <<>> THEN FALSE
    ELSE IF Head(t) # "$" THEN EndsInsideReference(Tail(t))
    ELSE IF MatchAfter(Tail(t)).group = "invalid"
         THEN Tail(t) = <<>> \/ OpenBrace(Tail(t))
    ELSE IF MatchAfter(Tail(t)).group = "named" /\ MatchAfter(Tail(t)).span = Len(t)
         THEN TRUE
    ELSE EndsInsideReference(Drop(t, MatchAfter(Tail(t)).span))

\* a Say of the human voice whose text is what the substitution r gives
SayOfText(r) ==
    Bind(r, LAMBDA x : Ok(SayElem(DefaultConfig.human_voice, NoLoop, <<TextNode(x)>>)))

\* substitute(a) followed by substitute(b)
EachOnItsOwn(a, b, variables) ==
    Bind(Substitute(a, variables),
         LAMBDA x : Bind(Substitute(b, variables), LAMBDA y : Ok(x \o y)))

\* say was called on a list of two literal pieces
TwoLiterals ==
    /\ fout # NoOutput
    /\ fin.op = "say"
    /\ fin.children.isList
    /\ Len(fin.children.items) = 2
    /\ IsStr(fin.children.items[1]) /\ IsStr(fin.children.items[2])

\* C18 as the specification states it: for all literal pieces a and b and
\* all variable mappings, the text say([a, b]) attaches is substitute(a)
\* followed by substitute(b).
C18_EachPieceOnItsOwn ==
    TwoLiterals =>
        fout = SayOfText(EachOnItsOwn(fin.children.items[1].text,
                                      fin.children.items[2].text, fin.variables))

\* C18: consecutive literal pieces are concatenated and the concatenation is
\* substituted once: say([a, b]) attaches substitute(a + b); that is
\* substitute(a) followed by substitute(b) whenever a does not end inside a
\* $-reference (a trailing "$", "$name", "${" or "${name").
C18_ConcatenatedThenSubstituted ==
    TwoLiterals =>
        /\ fout = SayOfText(Substitute(fin.children.items[1].text
                                       \o fin.children.items[2].text, fin.variables))
        /\ ~EndsInsideReference(fin.children.items[1].text) =>
              fout = SayOfText(EachOnItsOwn(fin.children.items[1].text,
                                            fin.children.items[2].text, fin.variables))

\* "$" and "a" are read as the reference $a, which is not configured: on
\* its own the piece "$" would be an invalid placeholder
C18_Witness ==
    /\ TwoLiterals
    /\ fin.children.items[1].text = <<"$">>
    /\ fin.children.items[2].text = <<"a">>
    /\ fin.variables = [n \in {} |-> <<>>]
    /\ fout = Raise("KeyError")
    /\ EachOnItsOwn(<<"$">>, <<"a">>, fin.variables) = Raise("ValueError")

\* the instructions of a markup that keep the call going
Continuations(body) == {i \in 1..Len(body) : body[i].verb \in {"Gather", "Record"}}

\* C19: with the configured menu, every markup that answers a keypress
\* holds exactly one continuation (one gather or one record) and no
\* hang-up; only /voice-reply-callback answers with a hang-up, so only that
\* request moves a call to Terminated; and a keypress other than "3" leaves a
\* call that awaits a menu choice awaiting a menu choice.
C19_KeypressesNeverEndTheCall ==
    [][nreq' = nreq + 1 =>
        /\ (req'.path = "/menu-callback" /\ resp'.kind = "twiml") =>
              /\ Cardinality(Continuations(resp'.body)) = 1
              /\ ~HasVerb(resp'.body, "Hangup")
        /\ HasVerb(resp'.body, "Hangup") => req'.path = "/voice-reply-callback"
        /\ (callState # "Terminated" /\ callState' = "Terminated") =>
              req'.path = "/voice-reply-callback"
        /\ (callState = "AwaitingMenuChoice" /\ req'.path = "/menu-callback"
            /\ ~Keypress(req', "3")) =>
              callState' = "AwaitingMenuChoice"]_vars

\* two keypresses after the call was placed, and the menu is announced again
C19_Witness ==
    /\ nreq >= 3
    /\ MenuCallbackWith("9")
    /\ callState = "AwaitingMenuChoice"
    /\ Cardinality(Continuations(resp.body)) = 1
    /\ ~HasVerb(resp.body, "Hangup")

====
